---- MODULE Spec2Model ----
(***************************************************************************)
(* Model of src/app.py: the item-resolution pipeline (split_parts,         *)
(* extract_qty, best_match, parse_items, apply_corrections) and the        *)
(* per-user conversation handlers (cmd_presupuesto, cmd_remito,            *)
(* route_text, on_button, handle_confirm) run as asyncio coroutines that   *)
(* interleave at their await points.                                       *)
(*                                                                         *)
(* A text is a sequence of one-character strings.  A catalog row is a      *)
(* record [Producto, Precio]; a resolved item is a record [prod, qty].     *)
(***************************************************************************)
EXTENDS Integers, Sequences, FiniteSets, Bags, TLC

VARIABLES
    user_data,  \* context.user_data of the one user: a dict (function on its keys)
    tasks,      \* bag of handler coroutines suspended at an await
    sent,       \* what the last step emitted (replies, documents, logged errors)
                \* or, when it resumed from reply_document, what was delivered
    call,       \* a call of a pure function on its own: the function and its arguments
    ret         \* <<its return value>> once it has returned

vars == <<user_data, tasks, sent, call, ret>>

----------------------------------------------------------------------------
(* Characters and the str methods the code uses *)

Max(a, b) == IF a >= b THEN a ELSE b
Min(a, b) == IF a <= b THEN a ELSE b

Digits == <<"0", "1", "2", "3", "4", "5", "6", "7", "8", "9">>
UpperChars == <<"A", "B", "C", "D", "E", "F", "G", "H", "I", "J", "K", "L", "M",
                "N", "O", "P", "Q", "R", "S", "T", "U", "V", "W", "X", "Y", "Z",
                "Í">>
LowerChars == <<"a", "b", "c", "d", "e", "f", "g", "h", "i", "j", "k", "l", "m",
                "n", "o", "p", "q", "r", "s", "t", "u", "v", "w", "x", "y", "z",
                "í">>

IsSpace(c) == c \in {" ", "\n", "\t"}

\* int() of one digit, as a table
DigitVals == [c \in {Digits[i] : i \in 1..10} |->
                (CHOOSE i \in 1..10 : Digits[i] = c) - 1] @@ <<>>

IsDigit(c) == c \in DOMAIN DigitVals
DigitVal(c) == DigitVals[c]

\* str.lower() of the cased characters, as a table
LowerOf == [c \in {UpperChars[i] : i \in 1..Len(UpperChars)} |->
              LowerChars[CHOOSE i \in 1..Len(UpperChars) : UpperChars[i] = c]] @@ <<>>

\* str.lower(), one character
LowerChar(c) == IF c \in DOMAIN LowerOf THEN LowerOf[c] ELSE c

\* str.lower()
Lower(s) == [i \in 1..Len(s) |-> LowerChar(s[i])]

RECURSIVE LStrip(_)
LStrip(s) == IF s # <<>> /\ IsSpace(Head(s)) THEN LStrip(Tail(s)) ELSE s

RECURSIVE RStrip(_)
RStrip(s) ==
    IF s # <<>> /\ IsSpace(s[Len(s)]) THEN RStrip(SubSeq(s, 1, Len(s) - 1)) ELSE s

\* str.strip()
Strip(s) == RStrip(LStrip(s))

\* str.replace(old, new) for one-character old and new
Replace(s, old, new) == [i \in 1..Len(s) |-> IF s[i] = old THEN new ELSE s[i]]

\* int() of a non-empty digit string
RECURSIVE ParseInt(_)
ParseInt(ds) ==
    IF ds = <<>> THEN 0
    ELSE 10 * ParseInt(SubSeq(ds, 1, Len(ds) - 1)) + DigitVal(ds[Len(ds)])

\* the longest prefix of s made of characters satisfying a class
RECURSIVE SpanDigits(_)
SpanDigits(s) ==
    IF s # <<>> /\ IsDigit(Head(s)) THEN 1 + SpanDigits(Tail(s)) ELSE 0

RECURSIVE SpanSpaces(_)
SpanSpaces(s) ==
    IF s # <<>> /\ IsSpace(Head(s)) THEN 1 + SpanSpaces(Tail(s)) ELSE 0

Drop(s, n) == SubSeq(s, n + 1, Len(s))

\* an optional value is a sequence of at most one value: <<>> is Python's None
None == <<>>

----------------------------------------------------------------------------
(* Inputs: the texts a user sends, button payloads, states of the sheet *)

TxtBlank == <<" ">>
TxtOK    == <<"O", "K">>
TxtItems == <<"2", " ", "b", "o", "t", "a", ",", " ", "c", "a", "s", "c", "o", " ", "x", "0">>
TxtElim  == <<"e", "l", "i", "m", "i", "n", "a", "r", " ", "b", "o", "t", "a">>
TxtD0    == <<"0">>
TxtD100  == <<"1", "0", "0", ",", "0">>
TxtOver  == <<"1", "0", "0", ".", "5">>
TxtNeg   == <<"-", "1">>

Texts == {TxtBlank, TxtOK, TxtItems, TxtElim, TxtD0, TxtD100, TxtOver, TxtNeg}

BtnConfirm == <<"c", "o", "n", "f", "i", "r", "m">>
BtnEdit    == <<"e", "d", "i", "t">>
BtnOther   == <<"n", "o", "o", "p">>
ButtonData == {BtnConfirm, BtnEdit, BtnOther}

Bota  == <<"B", "o", "t", "a">>
Casco == <<"C", "a", "s", "c", "o">>

SheetA == [tab |-> TRUE,
           rows |-> <<[Producto |-> Bota, Precio |-> 10],
                      [Producto |-> <<" ">>, Precio |-> 5],
                      [Producto |-> Casco, Precio |-> 20]>>]
SheetB == [tab |-> TRUE, rows |-> <<[Producto |-> <<" ">> \o Casco, Precio |-> 20]>>]
SheetBlank   == [tab |-> TRUE, rows |-> <<[Producto |-> <<" ">>, Precio |-> 5]>>]
SheetMissing == [tab |-> FALSE, rows |-> <<>>]
Sheets == {SheetA, SheetB, SheetBlank, SheetMissing}

SeqRange(s) == {s[i] : i \in 1..Len(s)}

\* The pure functions below are tabulated once over the arguments the texts and
\* sheets above can give them (@@ makes a table explicit); an operator with a
\* table is its computation on every argument, in the table or not.
Lookup(memo, key, default) == IF key \in DOMAIN memo THEN memo[key] ELSE default

\* the messages route_text sees: update.message.text.strip()
Msgs == {Strip(raw) : raw \in Texts}

----------------------------------------------------------------------------
(* Parser: ITEM_SEP, QTY_PAT, split_parts, extract_qty *)

\* the character class of ITEM_SEP = [,\n;]+ (also the split of apply_corrections)
SepChars == {",", "\n", ";"}

RECURSIVE SpanSeps(_)
SpanSeps(s) ==
    IF s # <<>> /\ Head(s) \in SepChars THEN 1 + SpanSeps(Tail(s)) ELSE 0

\* ITEM_SEP.split(text): the pieces between runs of separators; a text that
\* starts or ends with a separator yields an empty first or last piece
RECURSIVE SepSplitFrom(_, _)
SepSplitFrom(s, cur) ==
    IF s = <<>> THEN <<cur>>
    ELSE IF Head(s) \in SepChars
         THEN <<cur>> \o SepSplitFrom(Drop(s, SpanSeps(s)), <<>>)
         ELSE SepSplitFrom(Tail(s), Append(cur, Head(s)))

SepSplitMemo == [s \in Msgs |-> SepSplitFrom(s, <<>>)] @@ <<>>

SepSplit(s) == Lookup(SepSplitMemo, s, SepSplitFrom(s, <<>>))

KeepNonBlank(p) == IF p # <<>> THEN <<p>> ELSE <<>>

\* [p.strip() for p in pieces if p.strip()]
RECURSIVE StripNonBlank(_)
StripNonBlank(pieces) ==
    IF pieces = <<>> THEN <<>>
    ELSE KeepNonBlank(Strip(Head(pieces))) \o StripNonBlank(Tail(pieces))

OrWhole(parts, text) == IF parts # <<>> THEN parts ELSE <<Strip(text)>>

\* split_parts: parts or [text.strip()]
split_parts(text) == OrWhole(StripNonBlank(SepSplit(text)), text)

\* QTY_PAT anchored at the start of s (re.I):
\*   x\s*(\d+)   |   (\d+)\s*(?:u|unid|unidades)?
\* as [len, digits] with len = 0 when neither alternative matches there.
NoQty == [len |-> 0, digits |-> <<>>]

\* the unit alternation tries "u" first and the pattern then succeeds, so a
\* unit word never gives more than its first letter to the match
UnitLen(rest) == IF rest # <<>> /\ LowerChar(Head(rest)) = "u" THEN 1 ELSE 0

AltX(s, sp, d) ==
    IF d >= 1 THEN [len |-> 1 + sp + d, digits |-> SubSeq(s, 2 + sp, 1 + sp + d)]
    ELSE NoQty

AltXSpaces(s, sp) == AltX(s, sp, SpanDigits(Drop(s, 1 + sp)))

AltNum(s, d, sp) ==
    IF d >= 1 THEN [len |-> d + sp + UnitLen(Drop(s, d + sp)), digits |-> SubSeq(s, 1, d)]
    ELSE NoQty

AltNumDigits(s, d) == AltNum(s, d, SpanSpaces(Drop(s, d)))

QtyMatchAt(s) ==
    IF s = <<>> THEN NoQty
    ELSE IF LowerChar(Head(s)) = "x" THEN AltXSpaces(s, SpanSpaces(Tail(s)))
    ELSE AltNumDigits(s, SpanDigits(s))

\* QTY_PAT.search(s): the leftmost match (len = 0: None)
RECURSIVE QtySearch(_)
SearchFrom(s, m) == IF m.len > 0 THEN m ELSE QtySearch(Tail(s))
QtySearch(s) == IF s = <<>> THEN NoQty ELSE SearchFrom(s, QtyMatchAt(s))

\* QTY_PAT.sub("", s): every non-overlapping match removed, left to right
RECURSIVE QtySub(_)
SubFrom(s, m) ==
    IF m.len > 0 THEN QtySub(Drop(s, m.len)) ELSE <<Head(s)>> \o QtySub(Tail(s))
QtySub(s) == IF s = <<>> THEN <<>> ELSE SubFrom(s, QtyMatchAt(s))

\* lines 101-106 with m = QTY_PAT.search(s)
\* ExtractWith that returns the number as written
ExtractWithAsWritten(s, m) ==
    IF m.len > 0
    THEN [frag |-> Strip(QtySub(s)), qty |-> ParseInt(m.digits)]
    ELSE [frag |-> s, qty |-> 1]

ExtractWith(s, m) ==
    IF m.len > 0
    THEN [frag |-> Strip(QtySub(s)), qty |-> Max(ParseInt(m.digits), 1)]
    ELSE [frag |-> s, qty |-> Max(1, 1)]

\* the lines the messages split into (split_parts and apply_corrections)
MemoLines ==
    UNION {SeqRange(split_parts(m)) \cup SeqRange(StripNonBlank(SepSplit(m))) : m \in Msgs}

ExtractMemo == [s \in MemoLines |-> ExtractWith(s, QtySearch(s))] @@ <<>>

\* extract_qty(s) -> (s, qty)
extract_qty(s) == Lookup(ExtractMemo, s, ExtractWith(s, QtySearch(s)))

ELIMINAR == <<"e", "l", "i", "m", "i", "n", "a", "r">>

\* the line after "eliminar" and its \s+, given the length sp of that \s+
TargetAfter(rest, sp) ==
    IF sp >= 1 /\ Len(rest) > sp THEN <<Strip(Drop(rest, sp))>> ELSE None

\* re.match(r"(?i)^eliminar\s+(.+)$", ln) on a stripped line without
\* separators: <<group(1).strip()>>, or None
EliminarMatch(ln) ==
    IF Len(ln) > Len(ELIMINAR) /\ Lower(SubSeq(ln, 1, Len(ELIMINAR))) = ELIMINAR
    THEN TargetAfter(Drop(ln, Len(ELIMINAR)), SpanSpaces(Drop(ln, Len(ELIMINAR))))
    ELSE None

EliminarMemo == [ln \in MemoLines |-> EliminarMatch(ln)] @@ <<>>

EliminarTarget(ln) == Lookup(EliminarMemo, ln, EliminarMatch(ln))

----------------------------------------------------------------------------
(* Catalog source: fetch_catalog *)

KeepNamed(prod, row) ==
    IF prod # <<>> THEN <<[Producto |-> prod, Precio |-> row.Precio]>> ELSE <<>>

\* lines 74-85: the rows that keep a name after strip
RECURSIVE ValidRows(_)
ValidRows(rows) ==
    IF rows = <<>> THEN <<>>
    ELSE KeepNamed(Strip(Head(rows).Producto), Head(rows)) \o ValidRows(Tail(rows))

FetchFailed == [ok |-> FALSE, rows |-> <<>>]

FetchOut(out) == IF out = <<>> THEN FetchFailed ELSE [ok |-> TRUE, rows |-> out]

\* fetch_catalog over a sheet [tab, rows]: raises (ok = FALSE) when the tab
\* is missing, has no rows, or no row keeps a name
FetchSheet(sheet) ==
    IF ~sheet.tab \/ sheet.rows = <<>> THEN FetchFailed
    ELSE FetchOut(ValidRows(sheet.rows))

FetchMemo == [sheet \in Sheets |-> FetchSheet(sheet)] @@ <<>>

fetch_catalog(sheet) == Lookup(FetchMemo, sheet, FetchSheet(sheet))

----------------------------------------------------------------------------
(* Matcher: fuzz.WRatio (rapidfuzz), best_match *)

\* Scores are WRatio's 0..100 in thousandths of a point (0..100000), rounded
\* down, so that comparisons of scores are comparisons of integers.

MaxOf(S) == CHOOSE x \in S : \A y \in S : y <= x

\* whether x is a subsequence of y
RECURSIVE IsSubseq(_, _)
IsSubseq(x, y) ==
    IF x = <<>> THEN TRUE
    ELSE IF y = <<>> THEN FALSE
    ELSE IF Head(x) = Head(y) THEN IsSubseq(Tail(x), Tail(y))
    ELSE IsSubseq(x, Tail(y))

\* the characters of s at the positions in P, in order
RECURSIVE PickFrom(_, _, _)
PickFrom(s, P, i) ==
    IF i > Len(s) THEN <<>>
    ELSE IF i \in P THEN <<s[i]>> \o PickFrom(s, P, i + 1)
    ELSE PickFrom(s, P, i + 1)

LcsShortLong(short, long) ==
    MaxOf({Cardinality(P) : P \in {Q \in SUBSET (1..Len(short)) :
                                       IsSubseq(PickFrom(short, Q, 1), long)}})

\* length of the longest common subsequence of a and b
Lcs(a, b) == IF Len(a) <= Len(b) THEN LcsShortLong(a, b) ELSE LcsShortLong(b, a)

\* fuzz.ratio: the normalized Indel similarity, 2*LCS/(len1+len2)
Ratio(a, b) ==
    IF Len(a) + Len(b) = 0 THEN 100000
    ELSE (200000 * Lcs(a, b)) \div (Len(a) + Len(b))

PartialShortLong(short, long) ==
    MaxOf({Ratio(short, SubSeq(long, Max(i, 1), Min(i + Len(short) - 1, Len(long)))) :
             i \in (2 - Len(short))..Len(long)})

\* fuzz.partial_ratio: the best ratio of the shorter text against the windows
\* of the longer one (windows of the shorter's length, clipped at both ends)
PartialRatio(a, b) ==
    IF Len(a) <= Len(b) THEN PartialShortLong(a, b) ELSE PartialShortLong(b, a)

\* the plain ratio when the lengths are within a factor 1.5; otherwise the
\* larger of it and the partial ratio scaled by 0.9 (by 0.6 when the lengths
\* differ by more than a factor 8)
Weighted(lmax, lmin, ratio, partial) ==
    IF 2 * lmax < 3 * lmin THEN ratio
    ELSE IF lmax <= 8 * lmin THEN Max(ratio, (partial * 9) \div 10)
    ELSE Max(ratio, (partial * 6) \div 10)

\* fuzz.WRatio(s1, s2): 0 for an empty text.  The token-sorted variants of
\* the library are not modelled.
WRatioCalc(s1, s2) ==
    IF s1 = <<>> \/ s2 = <<>> THEN 0
    ELSE Weighted(Max(Len(s1), Len(s2)), Min(Len(s1), Len(s2)),
                  Ratio(s1, s2), PartialRatio(s1, s2))

\* the catalogs a fetch can return and the names in them, lower-cased
Catalogs == {fetch_catalog(sh).rows : sh \in Sheets} \ {<<>>}
MemoNames == UNION {{Lower(r.Producto) : r \in SeqRange(c)} : c \in Catalogs}
\* the fragments and the targets of "eliminar" that are matched
MemoFrags == {extract_qty(l).frag : l \in MemoLines}
Targets(lines) == {t[1] : t \in {EliminarTarget(l) : l \in lines} \ {None}}
MemoQueries == {Lower(q) : q \in MemoFrags \cup Targets(MemoLines)}

WRatioMemo ==
    [p \in MemoQueries \X MemoNames |-> WRatioCalc(p[1], p[2])] @@ <<>>

WRatio(s1, s2) == Lookup(WRatioMemo, <<s1, s2>>, WRatioCalc(s1, s2))

\* the acceptance floor of best_match, in points
MatchFloor == 80

\* the loop of best_match: (best, best_score) after scanning rows
RECURSIVE BestScan(_, _, _, _)
\* BestStep in which a later row of the same score replaces the earlier one
BestStepLast(query, rows, best, best_score, score) ==
    IF score >= best_score
    THEN BestScan(query, Tail(rows), <<Head(rows)>>, score)
    ELSE BestScan(query, Tail(rows), best, best_score)
BestStep(query, rows, best, best_score, score) ==
    IF score > best_score
    THEN BestScan(query, Tail(rows), <<Head(rows)>>, score)
    ELSE BestScan(query, Tail(rows), best, best_score)
BestScan(query, rows, best, best_score) ==
    IF rows = <<>> THEN [best |-> best, best_score |-> best_score]
    ELSE BestStep(query, rows, best, best_score,
                  WRatio(query, Lower(Head(rows).Producto)))

\* line 116
Accept(r) == IF r.best_score >= MatchFloor * 1000 THEN r.best ELSE None

BestOf(query, catalog) == Accept(BestScan(Lower(query), catalog, None, -1))

MatchMemo == [p \in MemoFrags \X Catalogs |-> BestOf(p[1], p[2])] @@ <<>>

\* best_match(query, catalog) -> <<row>> | None
best_match(query, catalog) == Lookup(MatchMemo, <<query, catalog>>, BestOf(query, catalog))

\* PartOut that drops the fragment it cannot match
PartOutSilent(part, qty, match) ==
    IF match # None
    THEN [items |-> <<[prod |-> match[1], qty |-> qty]>>, warnings |-> <<>>]
    ELSE [items |-> <<>>, warnings |-> <<>>]

\* lines 123-124 for one part; a warning is kept as the fragment it quotes
PartOut(part, qty, match) ==
    IF match # None
    THEN [items |-> <<[prod |-> match[1], qty |-> qty]>>, warnings |-> <<>>]
    ELSE [items |-> <<>>, warnings |-> <<part>>]

PartMatched(part, e, catalog) == PartOut(part, e.qty, best_match(e.frag, catalog))

\* lines 121-124 for one part
ParsePart(part, catalog) == PartMatched(part, extract_qty(part), catalog)

Both(r, rest) ==
    [items |-> r.items \o rest.items, warnings |-> r.warnings \o rest.warnings]

\* the loop of parse_items over the parts
RECURSIVE ParseParts(_, _)
ParseParts(parts, catalog) ==
    IF parts = <<>> THEN [items |-> <<>>, warnings |-> <<>>]
    ELSE Both(ParsePart(Head(parts), catalog), ParseParts(Tail(parts), catalog))

\* parse_items(text, catalog) -> (out, warnings)
parse_items(text, catalog) == ParseParts(split_parts(text), catalog)

----------------------------------------------------------------------------
(* Correction engine: apply_corrections *)

\* the scan for the item closest to target: best_i (0-based, -1 when the list
\* is empty); a later item replaces the best only with a strictly higher score
RECURSIVE BestIndexScan(_, _, _, _, _)
\* IndexStep in which a later item of the same score replaces the earlier one
IndexStepLast(target, items, i, best_i, best_score, sc) ==
    IF sc >= best_score
    THEN BestIndexScan(target, items, i + 1, i, sc)
    ELSE BestIndexScan(target, items, i + 1, best_i, best_score)
IndexStep(target, items, i, best_i, best_score, sc) ==
    IF sc > best_score
    THEN BestIndexScan(target, items, i + 1, i, sc)
    ELSE BestIndexScan(target, items, i + 1, best_i, best_score)
BestIndexScan(target, items, i, best_i, best_score) ==
    IF i >= Len(items) THEN best_i
    ELSE IndexStep(target, items, i, best_i, best_score,
                   WRatio(Lower(target), Lower(items[i + 1].prod.Producto)))

\* lines 331-332; list.pop(i), i 0-based
Remove(items, best_i) ==
    IF best_i >= 0
    THEN SubSeq(items, 1, best_i) \o SubSeq(items, best_i + 2, Len(items))
    ELSE items

\* index (0-based) of the first item of the same name, lower-cased; -1: none
RECURSIVE SameNameIndex(_, _, _)
SameNameIndex(items, name, i) ==
    IF i >= Len(items) THEN -1
    ELSE IF Lower(items[i + 1].prod.Producto) = Lower(name) THEN i
         ELSE SameNameIndex(items, name, i + 1)

\* lines 337-344
\* UpsertAt that adds the item whether or not its name is in the list
UpsertAtAppend(items, qty, row, i) == Append(items, [prod |-> row, qty |-> qty])

UpsertAt(items, qty, row, i) ==
    IF i >= 0
    THEN [items EXCEPT ![i + 1] = [prod |-> items[i + 1].prod, qty |-> qty]]
    ELSE Append(items, [prod |-> row, qty |-> qty])

UpsertMatch(items, qty, match) ==
    IF match # None
    THEN UpsertAt(items, qty, match[1], SameNameIndex(items, match[1].Producto, 0))
    ELSE items

\* lines 334-344
Upsert(items, catalog, e) == UpsertMatch(items, e.qty, best_match(e.frag, catalog))

CorrectWith(items, ln, catalog, m) ==
    IF m # None THEN Remove(items, BestIndexScan(m[1], items, 0, -1, -1))
    ELSE Upsert(items, catalog, extract_qty(ln))

\* the body of the for loop of apply_corrections for one line
CorrectLine(items, ln, catalog) == CorrectWith(items, ln, catalog, EliminarTarget(ln))

RECURSIVE CorrectLines(_, _, _)
CorrectLines(items, lines, catalog) ==
    IF lines = <<>> THEN items
    ELSE CorrectLines(CorrectLine(items, Head(lines), catalog), Tail(lines), catalog)

\* apply_corrections(current, msg, catalog) -> items
apply_corrections(current, msg, catalog) ==
    CorrectLines(current, StripNonBlank(SepSplit(msg)), catalog)

----------------------------------------------------------------------------
(* Discount: float(msg.replace(",", ".")) and the range test *)

RECURSIVE Pow10(_)
Pow10(k) == IF k = 0 THEN 1 ELSE 10 * Pow10(k - 1)

NoFloat == [ok |-> FALSE, num |-> 0, den |-> 1]

\* sign * (ip digits, optional dot, fp digits) when that is the whole body
FloatParts(sign, body, ip, dot, fp) ==
    IF ip + fp >= 1 /\ (dot = 1 \/ fp = 0) /\ Len(body) = ip + dot + fp
    THEN [ok |-> TRUE,
          num |-> sign * (ParseInt(SubSeq(body, 1, ip)) * Pow10(fp)
                            + ParseInt(SubSeq(body, ip + dot + 1, ip + dot + fp))),
          den |-> Pow10(fp)]
    ELSE NoFloat

FloatDot(sign, body, ip, dot) ==
    FloatParts(sign, body, ip, dot, SpanDigits(Drop(body, ip + dot)))

FloatInt(sign, body, ip) ==
    FloatDot(sign, body, ip, IF Len(body) > ip /\ body[ip + 1] = "." THEN 1 ELSE 0)

FloatBody(sign, body) == FloatInt(sign, body, SpanDigits(body))

FloatSigned(t) ==
    IF t # <<>> /\ Head(t) = "-" THEN FloatBody(-1, Tail(t))
    ELSE IF t # <<>> /\ Head(t) = "+" THEN FloatBody(1, Tail(t))
    ELSE FloatBody(1, t)

\* float(s) for the decimal forms [sign] digits [. [digits]] and [sign] . digits
\* as the exact fraction num/den; ok = FALSE is ValueError.  (Exponent forms,
\* "inf"/"nan" and digit-group underscores do not occur in the texts modelled.)
ParseFloat(s) == FloatSigned(Strip(s))

\* line 436
InRange(d) == IF d.ok /\ 0 <= d.num /\ d.num <= 100 * d.den THEN d ELSE NoFloat

\* lines 434-439: d on success, ok = FALSE when the except branch is taken
ParseDiscount(msg) == InRange(ParseFloat(Replace(msg, ",", ".")))

----------------------------------------------------------------------------
(* Documents *)

\* pdf_presupuesto / pdf_remito: the document as the data it is drawn from
pdf_presupuesto(cliente, items, desc_pct) ==
    [doc |-> "Presupuesto", cliente |-> cliente, items |-> items,
     desc_pct |-> <<desc_pct.num, desc_pct.den>>]

pdf_remito(cliente, items) ==
    [doc |-> "Remito", cliente |-> cliente, items |-> items, desc_pct |-> <<>>]

----------------------------------------------------------------------------
(* Bound *)

\* how many handler coroutines may at once be suspended at an await with code
\* left to run after it
MaxTasks == 1

----------------------------------------------------------------------------
(* context.user_data: a dict *)

FLOW       == "FLOW"
ASK_CLIENT == "ASK_CLIENT"
ASK_ITEMS  == "ASK_ITEMS"
ASK_REVIEW == "ASK_REVIEW"
ASK_DISC   == "ASK_DISC"

EmptyDict == <<>>

Has(d, k) == k \in DOMAIN d
\* d.get(k, default)
Get(d, k, default) == IF k \in DOMAIN d THEN d[k] ELSE default
\* bool(d.get(k)) for a flag
Flag(d, k) == k \in DOMAIN d /\ d[k] = TRUE
\* d[k] = v
Put(d, k, v) == [x \in (DOMAIN d) \cup {k} |-> IF x = k THEN v ELSE d[x]]
\* d.pop(k, None)
PopKey(d, k) == [x \in (DOMAIN d) \ {k} |-> d[x]]
\* a clear() that drops the phase flags only
ClearFlags(d) ==
    [k \in DOMAIN d \ {ASK_CLIENT, ASK_ITEMS, ASK_REVIEW, ASK_DISC} |-> d[k]]

\* d.clear()
Clear(d) == EmptyDict

\* d.get(FLOW) == "PRESU"
IsPresu(d) == Has(d, FLOW) /\ d[FLOW] = "PRESU"

----------------------------------------------------------------------------
(* Outputs and suspended coroutines *)

\* one emission: a reply_text / reply_document / edit_message_reply_markup
\* call, or the exception the dispatcher logs
Out(type, name, body) == [type |-> type, name |-> name, body |-> body]

\* a coroutine suspended at an await: where it resumes, and its callback data
Task(pc, data) == [pc |-> pc, data |-> data]

One(t) == SetToBag({t})
Suspended == BagToSet(tasks)

Init ==
    /\ user_data = EmptyDict
    /\ tasks = EmptyBag
    /\ sent = <<>>
    /\ call = None
    /\ ret = None

----------------------------------------------------------------------------
(* Phases: the branch route_text takes, in the order it tests the flags *)

AwaitClient(ud) == Flag(ud, ASK_CLIENT)

AwaitItems(ud) == ~Flag(ud, ASK_CLIENT) /\ Flag(ud, ASK_ITEMS)

AwaitReview(ud) == ~Flag(ud, ASK_CLIENT) /\ ~Flag(ud, ASK_ITEMS) /\ Flag(ud, ASK_REVIEW)

AwaitDiscount(ud) ==
    /\ ~Flag(ud, ASK_CLIENT) /\ ~Flag(ud, ASK_ITEMS) /\ ~Flag(ud, ASK_REVIEW)
    /\ Flag(ud, ASK_DISC)

----------------------------------------------------------------------------
(* Handlers.  A handler runs from an await to the next one without        *)
(* interruption; the result of such a run is a record                     *)
(*   [ud: the dict after it, out: what it emitted, pc: where it suspends] *)
(* with pc = "reply" when the await it reaches is its last statement,     *)
(* pc = "raised" when an exception ended it and pc = "done" at its end.   *)

Affirmative == {<<"o", "k">>, <<"l", "i", "s", "t", "o">>,
                <<"c", "o", "n", "f", "i", "r", "m", "a", "r">>,
                <<"s", "í">>, <<"s", "i">>}

Run(ud, out, pc) == [ud |-> ud, out |-> out, pc |-> pc]

\* the exception of fetch_catalog leaves the handler
Raised(ud) == Run(ud, <<Out("error", "fetch_catalog", <<>>)>>, "raised")

\* handle_confirm, lines 484-498 up to the await, after ASK_REVIEW is popped
Confirmed(ud) ==
    IF IsPresu(ud)
    THEN Run(Put(ud, ASK_DISC, TRUE), <<Out("text", "ask_discount", <<>>)>>, "reply")
    ELSE Run(ud,
             <<Out("document", "Remito",
                   pdf_remito(Get(ud, "cliente", <<>>), Get(ud, "items", <<>>)))>>,
             "remito_sending")

\* handle_confirm from line 483 on, up to its await
handle_confirm(ud) == Confirmed(PopKey(ud, ASK_REVIEW))

\* route_text, lines 379-386
ClientTurn(ud, msg) ==
    Run(Put(PopKey(Put(ud, "cliente", msg), ASK_CLIENT), ASK_ITEMS, TRUE),
        <<Out("text", "ask_items", <<>>)>>, "reply")

\* ItemsParsed without the test of line 397
ItemsParsedAlways(ud, catalog, parsed) ==
    Run(Put(PopKey(Put(Put(ud, "items", parsed.items), "catalog", catalog), ASK_ITEMS),
            ASK_REVIEW, TRUE),
        <<Out("text", "review", parsed)>>, "reply")

\* route_text, lines 392-410
ItemsParsed(ud, catalog, parsed) ==
    IF parsed.items = <<>>
    THEN Run(ud, <<Out("text", "not_understood", parsed.warnings)>>, "reply")
    ELSE Run(Put(PopKey(Put(Put(ud, "items", parsed.items), "catalog", catalog),
                        ASK_ITEMS),
                 ASK_REVIEW, TRUE),
             <<Out("text", "review", parsed)>>, "reply")

ItemsFetched(ud, msg, fetched) ==
    IF ~fetched.ok THEN Raised(ud)
    ELSE ItemsParsed(ud, fetched.rows, parse_items(msg, fetched.rows))

\* ItemsTurn that leaves the items phase before it fetches
ItemsTurnEager(ud, msg, sheet) ==
    ItemsFetched(PopKey(ud, ASK_ITEMS), msg, fetch_catalog(sheet))

\* route_text, lines 389-410
ItemsTurn(ud, msg, sheet) == ItemsFetched(ud, msg, fetch_catalog(sheet))

\* route_text, lines 423-430
Corrected(ud, updated) ==
    Run(Put(ud, "items", updated), <<Out("text", "updated", updated)>>, "reply")

\* route_text, lines 420-422: the default of get("catalog", fetch_catalog())
\* is evaluated before the lookup
CorrectionFetched(ud, msg, fetched) ==
    IF ~fetched.ok THEN Raised(ud)
    ELSE Corrected(ud, apply_corrections(Get(ud, "items", <<>>), msg,
                                         Get(ud, "catalog", fetched.rows)))

\* route_text, lines 418-430
CorrectionTurn(ud, msg, sheet) == CorrectionFetched(ud, msg, fetch_catalog(sheet))

\* route_text, lines 413-430
ReviewTurn(ud, msg, sheet) ==
    IF Lower(msg) \in Affirmative THEN handle_confirm(ud)
    ELSE CorrectionTurn(ud, msg, sheet)

\* Discounted without the range test of line 436
DiscountedAnyNumber(ud, d) ==
    Run(ud,
        <<Out("document", "Presupuesto",
              pdf_presupuesto(Get(ud, "cliente", <<>>), Get(ud, "items", <<>>), d))>>,
        "disc_sending")

\* route_text, lines 440-445, up to the await on reply_document
Discounted(ud, d) ==
    IF ~d.ok THEN Run(ud, <<Out("text", "bad_discount", <<>>)>>, "reply")
    ELSE Run(ud,
             <<Out("document", "Presupuesto",
                   pdf_presupuesto(Get(ud, "cliente", <<>>), Get(ud, "items", <<>>), d))>>,
             "disc_sending")

\* route_text, lines 433-445
DiscountTurn(ud, msg) == Discounted(ud, ParseDiscount(msg))

\* route_text after line 376, up to its first await
RouteMsg(ud, msg, sheet) ==
    IF Flag(ud, ASK_CLIENT) THEN ClientTurn(ud, msg)
    ELSE IF Flag(ud, ASK_ITEMS) THEN ItemsTurn(ud, msg, sheet)
    ELSE IF Flag(ud, ASK_REVIEW) THEN ReviewTurn(ud, msg, sheet)
    ELSE IF Flag(ud, ASK_DISC) THEN DiscountTurn(ud, msg)
    ELSE Run(ud, <<Out("text", "usage", <<>>)>>, "reply")

\* route_text up to its first await, on the raw text of the message
route_text(ud, raw, sheet) == RouteMsg(ud, Strip(raw), sheet)

\* whether this turn of route_text calls fetch_catalog (lines 390 and 420)
Fetches(ud, raw) ==
    /\ ~Flag(ud, ASK_CLIENT)
    /\ \/ Flag(ud, ASK_ITEMS)
       \/ Flag(ud, ASK_REVIEW) /\ Lower(Strip(raw)) \notin Affirmative

ButtonBranch(data) ==
    IF data = BtnConfirm THEN "confirm_markup"
    ELSE IF data = BtnEdit THEN "edit_markup"
    ELSE "reply"

\* on_button without the test of line 455
on_button_unguarded(ud, data) ==
    Run(ud, <<Out("markup", "clear", <<>>)>>, ButtonBranch(Lower(data)))

\* on_button after query.answer(), lines 454-473, up to the next await: each
\* branch first clears the keyboard
on_button(ud, data) ==
    Run(ud, <<Out("markup", "clear", <<>>)>>,
        IF ~Flag(ud, ASK_REVIEW) THEN "reply" ELSE ButtonBranch(Lower(data)))

\* where a handler still has code to run after the await it is suspended at;
\* at "reply" its last statement is the await, at "raised" an exception ended it
Pending(pc) == pc \notin {"reply", "raised", "done"}

\* a new handler runs to its first await; it is kept as a suspended coroutine
\* when code of it remains to run after that await
Suspend(r, data) ==
    /\ Pending(r.pc) => BagCardinality(tasks) < MaxTasks
    /\ user_data' = r.ud
    /\ sent' = r.out
    /\ tasks' = IF Pending(r.pc) THEN tasks (+) One(Task(r.pc, data)) ELSE tasks
    /\ UNCHANGED <<call, ret>>

\* a suspended handler t resumes and runs to its next await
Resume(t, r) ==
    /\ user_data' = r.ud
    /\ sent' = r.out
    /\ tasks' = IF Pending(r.pc) THEN (tasks (-) One(t)) (+) One(Task(r.pc, <<>>))
                ELSE tasks (-) One(t)
    /\ UNCHANGED <<call, ret>>

\* /start
CmdStart ==
    Suspend(Run(user_data, <<Out("text", "start", <<>>)>>, "reply"), <<>>)

cmd_presupuesto(ud) ==
    Run(Put(Put(ud, FLOW, "PRESU"), ASK_CLIENT, TRUE),
        <<Out("text", "ask_client", <<>>)>>, "reply")

cmd_remito(ud) ==
    Run(Put(Put(ud, FLOW, "REMITO"), ASK_CLIENT, TRUE),
        <<Out("text", "ask_client", <<>>)>>, "reply")

\* /presupuesto
CmdPresupuesto == Suspend(cmd_presupuesto(user_data), <<>>)

\* /remito
CmdRemito == Suspend(cmd_remito(user_data), <<>>)

\* a text message that is not a command, with the sheet as fetch_catalog
\* finds it during this turn (a turn that does not fetch is taken once)
RouteText(raw, sheet) ==
    /\ sheet \in (IF Fetches(user_data, raw) THEN Sheets ELSE {SheetA})
    /\ Suspend(route_text(user_data, raw, sheet), <<>>)

\* a button press: on_button up to await query.answer()
OnButton(data) ==
    Suspend(Run(user_data, <<Out("answer", "callback", <<>>)>>, "answer"), data)

\* on_button resumes after query.answer()
ButtonAnswered(t) ==
    /\ t.pc = "answer"
    /\ Resume(t, on_button(user_data, t.data))

\* handle_confirm resumes after clearing the keyboard (lines 477-481)
ConfirmResumed(t) ==
    /\ t.pc = "confirm_markup"
    /\ Resume(t, handle_confirm(user_data))

\* on_button's edit branch resumes after clearing the keyboard (line 466)
EditResumed(t) ==
    /\ t.pc = "edit_markup"
    /\ Resume(t, Run(user_data, <<Out("text", "edit_help", <<>>)>>, "reply"))

\* handle_confirm resumes when reply_document returns: line 498
RemitoSent(t) ==
    /\ t.pc = "remito_sending"
    /\ Resume(t, Run(Clear(user_data), <<Out("delivered", "Remito", <<>>)>>, "done"))

\* route_text resumes when reply_document returns: line 446
PresupuestoSent(t) ==
    /\ t.pc = "disc_sending"
    /\ Resume(t, Run(Clear(user_data), <<Out("delivered", "Presupuesto", <<>>)>>, "done"))

Next ==
    \/ CmdStart
    \/ CmdPresupuesto
    \/ CmdRemito
    \/ \E raw \in Texts, sheet \in Sheets : RouteText(raw, sheet)
    \/ \E data \in ButtonData : OnButton(data)
    \/ \E t \in Suspended : ButtonAnswered(t)
    \/ \E t \in Suspended : ConfirmResumed(t)
    \/ \E t \in Suspended : EditResumed(t)
    \/ \E t \in Suspended : RemitoSent(t)
    \/ \E t \in Suspended : PresupuestoSent(t)

Spec == Init /\ [][Next]_vars

----------------------------------------------------------------------------
(* Properties *)

\* the output of the last step, when it is a single message of this name
Said(name) == Len(sent) = 1 /\ sent[1].name = name

\* whether parse_items resolves at least one item of raw on this sheet
Resolves(raw, fetched) ==
    fetched.ok /\ parse_items(Strip(raw), fetched.rows).items # <<>>

ItemsTurnOutcome(ud, after, resolved) ==
    /\ AwaitReview(after) <=> resolved
    /\ ~resolved => after = ud

\* C1: in AWAIT_ITEMS a text turn enters AWAIT_REVIEW exactly when parse_items
\* resolves at least one item; otherwise the whole session (phase, client,
\* document kind, item list) is as before the turn.
C1_ItemsTurn ==
    AwaitItems(user_data) =>
        \A raw \in Texts, sheet \in Sheets :
            ItemsTurnOutcome(user_data, route_text(user_data, raw, sheet).ud,
                             Resolves(raw, fetch_catalog(sheet)))

\* an items turn has resolved items and the session is in review with them
C1_Witness ==
    /\ Said("review")
    /\ AwaitReview(user_data)
    /\ Get(user_data, "items", <<>>) = sent[1].body.items
    /\ sent[1].body.items # <<>>


----------------------------------------------------------------------------
(* C2 *)

Renders(out) == \E i \in 1..Len(out) : out[i].type = "document"

\* the session after a correction batch: the item list replaced by what
\* apply_corrections makes of it with the stored snapshot, nothing else touched
CorrectedSession(ud, msg) ==
    Put(ud, "items",
        apply_corrections(Get(ud, "items", <<>>), msg, Get(ud, "catalog", <<>>)))

ReviewTurnOutcome(ud, msg, after) ==
    IF Lower(msg) \in Affirmative THEN ~AwaitReview(after)
    ELSE after = CorrectedSession(ud, msg) /\ AwaitReview(after)

\* C2: in AWAIT_REVIEW a text that is, ignoring case, one of ok, listo,
\* confirmar, sí, si moves the session out of review; every other text
\* replaces the item list by apply_corrections of it and stays in review.
C2_ReviewTurn ==
    AwaitReview(user_data) =>
        \A raw \in Texts, sheet \in Sheets :
            ReviewTurnOutcome(user_data, Strip(raw),
                              route_text(user_data, raw, sheet).ud)

\* the same over the turns whose fetch_catalog returns
C2_ReviewTurnFetched ==
    AwaitReview(user_data) =>
        \A raw \in Texts, sheet \in {sh \in Sheets : fetch_catalog(sh).ok} :
            ReviewTurnOutcome(user_data, Strip(raw),
                              route_text(user_data, raw, sheet).ud)

----------------------------------------------------------------------------
(* C3 *)

IsRemito(ud) == Has(ud, FLOW) /\ ud[FLOW] = "REMITO"

\* C3: a delivery-note flow is never in AWAIT_DISCOUNT (the part of the claim
\* that the flags, kept across a change of document kind, decide).
C3_RemitoNeverAwaitsDiscount == ~(IsRemito(user_data) /\ AwaitDiscount(user_data))

----------------------------------------------------------------------------
(* C4 *)

\* the number a/b as a discount record
Number(a, b) == [ok |-> TRUE, num |-> a, den |-> b]

QuoteOf(ud, d) ==
    Out("document", "Presupuesto",
        pdf_presupuesto(Get(ud, "cliente", <<>>), Get(ud, "items", <<>>), d))

DiscountTurnOutcome(ud, d, r) ==
    IF d.ok /\ 0 <= d.num /\ d.num <= 100 * d.den
    THEN r.out = <<QuoteOf(ud, d)>> /\ r.pc = "disc_sending"
    ELSE r.ud = ud /\ ~Renders(r.out) /\ r.pc = "reply"

\* C4: in AWAIT_DISCOUNT a text that is no decimal number (comma or dot) or
\* is outside [0,100] changes nothing in the session and renders nothing; a
\* number in [0,100], the bounds included, renders the quote with that
\* discount and goes on to finalize.  "0" and "100,0" are 0 and 100.
C4_DiscountTurn ==
    /\ ParseFloat(Replace(TxtD0, ",", ".")) = Number(0, 1)
    /\ ParseFloat(Replace(TxtD100, ",", ".")) = Number(1000, 10)
    /\ ParseFloat(Replace(TxtOver, ",", ".")) = Number(1005, 10)
    /\ ParseFloat(Replace(TxtNeg, ",", ".")) = Number(-1, 1)
    /\ ~ParseFloat(Replace(TxtOK, ",", ".")).ok
    /\ AwaitDiscount(user_data) =>
           \A raw \in Texts :
               DiscountTurnOutcome(user_data, ParseFloat(Replace(Strip(raw), ",", ".")),
                                   route_text(user_data, raw, SheetA))

\* a quote with discount 100 is being sent
C4_Witness ==
    /\ sent = <<QuoteOf(user_data, Number(1000, 10))>>
    /\ AwaitDiscount(user_data)
    /\ \E t \in Suspended : t.pc = "disc_sending"

----------------------------------------------------------------------------
(* C5 *)

\* C5: when a document has been delivered and its handler has ended, the
\* session holds nothing: no document kind, client, items, snapshot or flag.
C5_ClearedAfterFinalization ==
    (Len(sent) = 1 /\ sent[1].type = "delivered") => user_data = EmptyDict

\* a quote has been delivered and the session is empty
C5_Witness == sent = <<Out("delivered", "Presupuesto", <<>>)>> /\ DOMAIN user_data = {}

----------------------------------------------------------------------------
(* C6 *)

\* no /presupuesto or /remito since the start or the last clear()
NoFlow(ud) == ~Has(ud, FLOW)

\* C6: while no flow is active every text gets the usage reply and every
\* button press only clears the keyboard; the session is not changed and no
\* document is rendered.
C6_NoFlowInput ==
    NoFlow(user_data) =>
        /\ \A raw \in Texts, sheet \in Sheets :
               route_text(user_data, raw, sheet)
                  = Run(user_data, <<Out("text", "usage", <<>>)>>, "reply")
        /\ \A data \in ButtonData :
               on_button(user_data, data)
                  = Run(user_data, <<Out("markup", "clear", <<>>)>>, "reply")

\* a text got the usage reply while no flow was active
C6_Witness == Said("usage") /\ NoFlow(user_data)

----------------------------------------------------------------------------
(* C7 *)

\* what a handler suspended at pc emitted when it suspended
OwnOutput(pc) ==
    IF pc = "answer" THEN "answer"
    ELSE IF pc \in {"confirm_markup", "edit_markup"} THEN "markup"
    ELSE "document"

\* C7: one complete turn at a time: while a handler is suspended inside its
\* turn, no other handler that reads or writes the session has run (the last
\* step is the suspended handler's own, or /start, which does not touch it).
C7_OneTurnAtATime ==
    \A t \in Suspended :
        Len(sent) = 1 /\ (sent[1].type = OwnOutput(t.pc) \/ sent[1].name = "start")

----------------------------------------------------------------------------
(* C8 *)

\* C8: a turn in which fetch_catalog fails (an items turn, or a correction
\* turn in review) leaves the session exactly as it was.
C8_FetchFailureKeepsState ==
    \A raw \in Texts, sheet \in Sheets :
        (Fetches(user_data, raw) /\ ~fetch_catalog(sheet).ok)
            => /\ route_text(user_data, raw, sheet).ud = user_data
               /\ route_text(user_data, raw, sheet).pc = "raised"

\* an items turn has failed on the fetch and the session still awaits items
C8_Witness ==
    /\ Len(sent) = 1 /\ sent[1].type = "error"
    /\ AwaitItems(user_data)
    /\ ~Has(user_data, "items")

----------------------------------------------------------------------------
(* C9 *)

\* C9: a correction turn in AWAIT_REVIEW performs no catalog fetch, so no
\* such turn ends in the failure of fetch_catalog.
C9_NoFetchInReview ==
    ~(AwaitReview(user_data) /\ Len(sent) = 1 /\ sent[1].type = "error")

----------------------------------------------------------------------------
(* C10 *)

\* C10: the session leaves AWAIT_CLIENT only on a text that is non-empty
\* after trimming, which is then the stored client name: whenever a client
\* turn has just asked for the items, the stored name is not empty.
C10_ClientNameNotEmpty ==
    (Said("ask_items") /\ AwaitItems(user_data)) => Get(user_data, "cliente", <<>>) # <<>>

----------------------------------------------------------------------------
(* The pure functions on their own: a call is drawn from the inputs below, *)
(* and one step returns what the function computes for it.                 *)

Botas == <<"B", "o", "t", "a", "s">>
CascoLower == <<"c", "a", "s", "c", "o">>

RowBota  == [Producto |-> Bota, Precio |-> 10]
RowBotas == [Producto |-> Botas, Precio |-> 15]
RowCasco == [Producto |-> Casco, Precio |-> 20]
RowCascoLower == [Producto |-> CascoLower, Precio |-> 30]

\* catalogs as fetch_catalog returns them; the last two hold a pair of rows
\* whose names differ by case only
PureCatalogs ==
    {<<>>, <<RowBota, RowCasco>>, <<RowCasco, RowBota, RowBotas>>,
     <<RowCasco, RowCascoLower>>, <<RowCascoLower, RowCasco>>}

Item(row, qty) == [prod |-> row, qty |-> qty]

\* item lists of a session: no two items of the same name
PureItemLists ==
    {<<>>, <<Item(RowBota, 1)>>, <<Item(RowBota, 1), Item(RowCasco, 2)>>,
     <<Item(RowCasco, 2), Item(RowBota, 1)>>,
     <<Item(RowBotas, 4), Item(RowCasco, 2), Item(RowBota, 1)>>}

Call(fn, text, items, catalog) ==
    [fn |-> fn, text |-> text, items |-> items, catalog |-> catalog]

\* messages for parse_items
ParseTexts ==
    {<<"2", " ", "b", "o", "t", "a", ",", " ", "c", "a", "s", "c", "o", " ", "x", "0">>,
     <<"z", "z", "z", ",", " ", "c", "a", "s", "c", "o">>,
     <<"b", "o", "t", "a", ",", " ", "5">>,
     <<"5">>,
     <<"b", "o", "t", "a", ";", " ", "z", "z", "z", "\n", "c", "a", "s", "c", "o">>,
     <<"2", " ", "z", "z", "z">>,
     <<",">>,
     <<" ", "b", "o", "t", "a", " ", ",", ",", " ", "3", " ", "c", "a", "s", "c", "o">>}

ParseCalls == {Call("parse_items", t, <<>>, c) : t \in ParseTexts, c \in PureCatalogs}

Returned(fn) == call # None /\ call.fn = fn /\ ret # None

\* parse_items returns
ApplyParseItems ==
    /\ call # None /\ call.fn = "parse_items" /\ ret = None
    /\ ret' = <<parse_items(call.text, call.catalog)>>
    /\ UNCHANGED <<user_data, tasks, sent, call>>

----------------------------------------------------------------------------
(* Calls of extract_qty, best_match and apply_corrections *)

\* descriptions, some with a size in digits or a number before a word in u
Descs ==
    {<<"b", "o", "t", "a">>,
     <<"b", "o", "t", "a", " ", "r", "o", "j", "a">>,
     <<" ", "c", "a", "s", "c", "o", " ">>,
     <<"t", "a", "l", "l", "e", " ", "4", "2">>,
     <<"3", " ", "u", "v", "a", "s">>}

\* quantities as written
Counts ==
    {<<"1">>,
     <<"2">>,
     <<"1", "0">>}

\* the fragment "<desc> x<N>"
Marked(desc, n) == desc \o <<" ", "x">> \o n

MarkedFragments == {Marked(d, n) : d \in Descs, n \in Counts}

\* fragments without a digit
PlainFragments ==
    {<<"b", "o", "t", "a">>,
     <<"b", "o", "t", "a", " ", "r", "o", "j", "a">>,
     <<"b", "o", "t", "a", " ", " ", "r", "o", "j", "a">>,
     <<" ", "c", "a", "s", "c", "o", " ">>,
     <<"b", "o", "t", "a", "\t", "r", "o", "j", "a">>,
     <<>>}

\* fragments whose marker is zero
ZeroFragments ==
    {<<"x", "0">>,
     <<"0">>,
     <<"b", "o", "t", "a", " ", "x", "0">>,
     <<"0", " ", "u">>,
     <<"x", " ", "0", "0">>}

Fragments == MarkedFragments \cup PlainFragments \cup ZeroFragments

ExtractCalls == {Call("extract_qty", f, <<>>, <<>>) : f \in Fragments}

Queries ==
    {<<"b", "o", "t", "a">>,
     <<"C", "a", "s", "c", "o">>,
     <<"C", "A", "S", "C", "O">>,
     <<"c", "a", "s">>,
     <<"c", "a", "s", "c">>,
     <<"b", "o", "t", "a", "s">>,
     <<"z", "z", "z">>,
     <<>>}

MatchCalls == {Call("best_match", q, <<>>, c) : q \in Queries, c \in PureCatalogs}

\* what follows "eliminar" in a removal line
ElimTargets ==
    {<<"b", "o", "t", "a">>,
     <<"c", "a", "s", "c", "o">>,
     <<"C", "A", "S", "C", "O">>,
     <<"b", "o", "t", "a", "s">>,
     <<"z", "z", "z">>}

\* the line "eliminar <description>"
ElimLine(d) == ELIMINAR \o <<" ">> \o d

\* lines that set a quantity
UpsertLines ==
    {<<"c", "a", "s", "c", "o", " ", "x", "3">>,
     <<"C", "A", "S", "C", "O", " ", "5">>,
     <<"b", "o", "t", "a">>,
     <<"z", "z", "z", " ", "x", "2">>}

\* batches of several lines
Batches ==
    {<<"b", "o", "t", "a", " ", "x", "2", ",", " ", "e", "l", "i", "m", "i", "n", "a", "r", " ", "c", "a", "s", "c", "o">>,
     <<"e", "l", "i", "m", "i", "n", "a", "r", " ", "b", "o", "t", "a", ";", " ", "b", "o", "t", "a", "\n", "c", "a", "s", "c", "o", " ", "7">>,
     <<"E", "L", "I", "M", "I", "N", "A", "R", " ", " ", "c", "a", "s", "c", "o">>}

CorrectionTexts == {ElimLine(d) : d \in ElimTargets} \cup UpsertLines \cup Batches

CorrectionCalls ==
    {Call("apply_corrections", t, l, c) :
        t \in CorrectionTexts, l \in PureItemLists, c \in PureCatalogs}

\* extract_qty returns
ApplyExtractQty ==
    /\ call # None /\ call.fn = "extract_qty" /\ ret = None
    /\ ret' = <<extract_qty(call.text)>>
    /\ UNCHANGED <<user_data, tasks, sent, call>>

\* best_match returns
ApplyBestMatch ==
    /\ call # None /\ call.fn = "best_match" /\ ret = None
    /\ ret' = <<best_match(call.text, call.catalog)>>
    /\ UNCHANGED <<user_data, tasks, sent, call>>

\* apply_corrections returns
ApplyCorrections ==
    /\ call # None /\ call.fn = "apply_corrections" /\ ret = None
    /\ ret' = <<apply_corrections(call.items, call.text, call.catalog)>>
    /\ UNCHANGED <<user_data, tasks, sent, call>>

PureCalls == ParseCalls \cup ExtractCalls \cup MatchCalls \cup CorrectionCalls

PureInit ==
    /\ user_data = EmptyDict
    /\ tasks = EmptyBag
    /\ sent = <<>>
    /\ call \in PureCalls
    /\ ret = None

PureNext ==
    \/ ApplyParseItems
    \/ ApplyExtractQty
    \/ ApplyBestMatch
    \/ ApplyCorrections

PureSpec == PureInit /\ [][PureNext]_vars

----------------------------------------------------------------------------
(* C11 *)

\* the fragments of a message that resolve / do not resolve in a catalog
Resolving(text, catalog) ==
    LET Matches(p) == best_match(extract_qty(p).frag, catalog) # None
    IN  SelectSeq(split_parts(text), Matches)

NotResolving(text, catalog) ==
    LET Fails(p) == best_match(extract_qty(p).frag, catalog) = None
    IN  SelectSeq(split_parts(text), Fails)

ItemOf(p, catalog) ==
    [prod |-> best_match(extract_qty(p).frag, catalog)[1], qty |-> extract_qty(p).qty]

EachFragmentOnce(r, hits, misses, catalog) ==
    /\ r.warnings = misses
    /\ r.items = [i \in 1..Len(hits) |-> ItemOf(hits[i], catalog)]

\* C11: parse_items treats every fragment of split_parts on its own: the
\* items are, in fragment order, one (entry, quantity) for each fragment whose
\* cleaned description matches, and the warnings are, in fragment order, the
\* original text of each fragment that does not.
C11_FragmentsIndependent ==
    Returned("parse_items") =>
        EachFragmentOnce(ret[1], Resolving(call.text, call.catalog),
                         NotResolving(call.text, call.catalog), call.catalog)

\* a message of three fragments, the middle one unmatched, has returned two
\* items around one warning
C11_Witness ==
    /\ Returned("parse_items")
    /\ Len(split_parts(call.text)) = 3
    /\ Len(ret[1].items) = 2
    /\ ret[1].warnings = <<split_parts(call.text)[2]>>

----------------------------------------------------------------------------
(* C12 *)

\* whether nothing of a fragment is left once its quantity is taken out
ReducesToEmpty(p) == extract_qty(p).frag = <<>>

EmptySkipped(parts, r) ==
    IF Len(parts) > 1
    THEN \A i \in 1..Len(r.warnings) : ~ReducesToEmpty(r.warnings[i])
    ELSE ReducesToEmpty(parts[1]) => r.warnings = parts

\* C12: in a message of several fragments, a fragment that reduces to the
\* empty description gives neither an item nor a warning; a message that is
\* one such fragment gives a warning.
C12_EmptyFragmentsSkipped ==
    Returned("parse_items") => EmptySkipped(split_parts(call.text), ret[1])

----------------------------------------------------------------------------
(* C13 *)

\* the score of each row of a catalog against a query, in thousandths
ScoresOf(query, catalog) ==
    [i \in 1..Len(catalog) |-> WRatio(Lower(query), Lower(catalog[i].Producto))]

\* the first position that holds the largest score
FirstTop(scores) ==
    CHOOSE i \in 1..Len(scores) :
        /\ \A j \in 1..Len(scores) : scores[j] <= scores[i]
        /\ \A j \in 1..(i - 1) : scores[j] < scores[i]

TopAccepted(result, catalog, scores, top) ==
    IF scores[top] >= MatchFloor * 1000
    THEN result = <<catalog[top]>>
    ELSE result = None

FirstBestOrNone(result, catalog, scores) ==
    IF catalog = <<>> THEN result = None
    ELSE TopAccepted(result, catalog, scores, FirstTop(scores))

\* C13: best_match returns the first catalog entry of the largest score when
\* that score is at least 80 points, and no match otherwise (an empty catalog
\* included).
C13_FirstBestAboveFloor ==
    Returned("best_match") =>
        FirstBestOrNone(ret[1], call.catalog, ScoresOf(call.text, call.catalog))

TiedAt(scores, i, j) ==
    /\ scores[i] = scores[j]
    /\ scores[i] >= MatchFloor * 1000
    /\ \A k \in 1..Len(scores) : scores[k] <= scores[i]

\* two entries share the largest score and the earlier one is returned
C13_Witness ==
    /\ Returned("best_match")
    /\ Len(call.catalog) = 2
    /\ TiedAt(ScoresOf(call.text, call.catalog), 1, 2)
    /\ ret[1] = <<call.catalog[1]>>

----------------------------------------------------------------------------
(* C14 *)

\* every item of a list has a positive quantity
AllPositive(items) == \A i \in 1..Len(items) : items[i].qty >= 1

\* C14: extract_qty gives a quantity of at least 1 for every line of the
\* messages (a marker x0 and a bare 0 included), and every item of the
\* session has a quantity of at least 1, after the first resolution and
\* after any corrections.
C14_QuantitiesPositive ==
    /\ \A l \in MemoLines : extract_qty(l).qty >= 1
    /\ AllPositive(Get(user_data, "items", <<>>))

CascoZero == <<"c", "a", "s", "c", "o", " ", "x", "0">>

\* the session holds the item that was written with the marker x0
C14_Witness ==
    /\ AwaitReview(user_data)
    /\ CascoZero \in MemoLines
    /\ TxtD0 \in MemoLines
    /\ \E i \in 1..Len(Get(user_data, "items", <<>>)) :
          /\ Lower(Get(user_data, "items", <<>>)[i].prod.Producto) = Lower(Casco)
          /\ Get(user_data, "items", <<>>)[i].qty = 1

----------------------------------------------------------------------------
(* C15 *)

\* the call is extract_qty of desc, a space, "x" and the number n
MarkedCall(desc, n) ==
    /\ Returned("extract_qty")
    /\ call.text = Marked(desc, n)

\* C15: for a fragment "<desc> x<N>", extract_qty returns the trimmed <desc>
\* and N, whatever <desc> is.
C15_MarkerAfterDescription ==
    \A desc \in Descs, n \in Counts :
        MarkedCall(desc, n) => ret[1] = [frag |-> Strip(desc), qty |-> ParseInt(n)]

----------------------------------------------------------------------------
(* C16 *)

\* s with every run of whitespace replaced by one space
RECURSIVE Collapse(_)
CollapseRun(s, sp) ==
    IF sp > 0 THEN <<" ">> \o Collapse(Drop(s, sp))
    ELSE <<Head(s)>> \o Collapse(Tail(s))
Collapse(s) == IF s = <<>> THEN <<>> ELSE CollapseRun(s, SpanSpaces(s))

\* the call is extract_qty of a fragment without a quantity marker
PlainCall ==
    /\ Returned("extract_qty")
    /\ call.text \in PlainFragments

\* C16: for a fragment without a quantity marker, extract_qty returns the
\* quantity 1 and the fragment with its whitespace runs collapsed to one
\* space and its ends trimmed.
C16_PlainFragmentNormalised ==
    PlainCall => ret[1] = [frag |-> Strip(Collapse(call.text)), qty |-> 1]

----------------------------------------------------------------------------
(* C17 *)

\* the score of each item's entry name against a description, in thousandths
ItemScores(desc, items) ==
    [i \in 1..Len(items) |-> WRatio(Lower(desc), Lower(items[i].prod.Producto))]

\* items without the one at position i
Without(items, i) == SubSeq(items, 1, i - 1) \o SubSeq(items, i + 1, Len(items))

BestRemoved(result, items, scores) ==
    IF items = <<>> THEN result = <<>>
    ELSE result = Without(items, FirstTop(scores))

\* the call is apply_corrections of the one line "eliminar <desc>"
EliminarCall(desc) ==
    /\ Returned("apply_corrections")
    /\ call.text = ElimLine(desc)

\* C17: "eliminar <description>" removes from a non-empty list exactly the
\* first item of the highest similarity to the description, whatever that
\* similarity is, keeps the others as they were and in their order, and
\* leaves an empty list empty.
C17_EliminarRemovesBest ==
    \A desc \in ElimTargets :
        EliminarCall(desc) =>
            BestRemoved(ret[1], call.items, ItemScores(desc, call.items))

Zzz == <<"z", "z", "z">>

\* a description that resembles no item removes the first of several items
C17_Witness ==
    /\ EliminarCall(Zzz)
    /\ Len(call.items) >= 2
    /\ ItemScores(Zzz, call.items)[1] < MatchFloor * 1000
    /\ ret[1] = Tail(call.items)

----------------------------------------------------------------------------
(* C18 *)

\* the positions of the items of a name, compared without case
NamePositions(items, name) ==
    {i \in 1..Len(items) : Lower(items[i].prod.Producto) = Lower(name)}

NoDuplicates(items) ==
    \A i, j \in 1..Len(items) :
        i # j => Lower(items[i].prod.Producto) # Lower(items[j].prod.Producto)

\* items with the quantity of the items at the positions P set to qty
Overwritten(items, P, qty) ==
    [i \in 1..Len(items) |->
        IF i \in P THEN [prod |-> items[i].prod, qty |-> qty] ELSE items[i]]

OverwrittenOrAppended(result, items, row, qty, P) ==
    IF P # {} THEN result = Overwritten(items, P, qty)
    ELSE result = Append(items, [prod |-> row, qty |-> qty])

UpsertedWith(result, items, e, match) ==
    match # None =>
        OverwrittenOrAppended(result, items, match[1], e.qty,
                              NamePositions(items, match[1].Producto))

\* C18: a line that is not a removal and whose description matches an entry
\* overwrites the quantity of the item of that entry name (compared without
\* case), in place, and appends the entry with the quantity only when no
\* item has that name; a batch applied to a list without duplicate names
\* gives a list without duplicate names.
C18_UpsertByName ==
    Returned("apply_corrections") =>
        /\ NoDuplicates(call.items) => NoDuplicates(ret[1])
        /\ call.text \in UpsertLines =>
               UpsertedWith(ret[1], call.items, extract_qty(call.text),
                            best_match(extract_qty(call.text).frag, call.catalog))

\* "CASCO 5" sets the quantity of the second of three items to 5
C18_Witness ==
    /\ Returned("apply_corrections")
    /\ call.text = <<"C", "A", "S", "C", "O", " ", "5">>
    /\ Len(call.items) = 3
    /\ NamePositions(call.items, Casco) = {2}
    /\ call.items[2].qty # 5
    /\ ret[1] = [call.items EXCEPT ![2].qty = 5]

----------------------------------------------------------------------------
(* C19 *)

\* the client name of the flow the last command opened is still to be
\* collected: a command sets ASK_CLIENT and only the client turn pops it
ClientPending(ud) == Flag(ud, ASK_CLIENT)

\* C19: a document is rendered from a client name and an item list collected
\* after the most recent /presupuesto or /remito; so none is rendered while
\* the client name of the flow that command opened has not been given yet.
C19_DocumentFromCurrentFlow == Renders(sent) => ~ClientPending(user_data)

----------------------------------------------------------------------------
(* C20 *)

PhaseFlags == {ASK_CLIENT, ASK_ITEMS, ASK_REVIEW, ASK_DISC}

\* the phase flags that are set
FlagsSet(ud) == {k \in PhaseFlags : Flag(ud, k)}

\* C20: at most one phase flag is set, and none is set without a document
\* kind.
C20_OnePhaseFlag ==
    /\ Cardinality(FlagsSet(user_data)) <= 1
    /\ FlagsSet(user_data) # {} => Has(user_data, FLOW)

\* the second part of C20 alone
C20_FlagOnlyWithFlow == FlagsSet(user_data) # {} => Has(user_data, FLOW)

----------------------------------------------------------------------------
(* C21 *)

\* the item lists handed to pdf_remito or pdf_presupuesto in the last step
RenderedItems(out) ==
    {out[i].body.items : i \in {j \in 1..Len(out) : out[j].type = "document"}}

\* C21: a document is rendered from an item list of at least one item,
\* whatever corrections were sent during the review.
C21_DocumentHasItems == \A items \in RenderedItems(sent) : items # <<>>

----------------------------------------------------------------------------
(* C22 *)

\* the handlers suspended inside reply_document, each with a document rendered
Sending == {"remito_sending", "disc_sending"}

DocumentsInFlight ==
    BagCardinality([t \in {u \in Suspended : u.pc \in Sending} |-> tasks[t]])

\* a /presupuesto or /remito was the last step, taken while a document of the
\* earlier flow was being sent
StartedWhileSending == DocumentsInFlight >= 1 /\ Said("ask_client")

\* the step in which reply_document returns and the handler ends
Delivers == Len(sent') = 1 /\ sent'[1].type = "delivered"

\* the flow the command opened is still there after that step
FlowSurvivesDelivery == StartedWhileSending /\ Delivers => Has(user_data', FLOW)

\* C22: a flow emits at most one document, so no two handlers are sending a
\* document of it at once, and the clear() that ends a handler does not
\* erase a flow that a command opened while the document was being sent.
C22_OneDocumentPerFlow ==
    /\ [](DocumentsInFlight <= 1)
    /\ [][FlowSurvivesDelivery]_vars

====
